---- MODULE Spec2Model ----
(***************************************************************************)
(* Request admission and asynchronous job execution of the media API       *)
(* (src/app_utils.py): the queue_task wrapper, the shared task_queue and   *)
(* the process_queue worker thread, with the webhook notifier              *)
(* (src/services/webhook.py).                                              *)
(*                                                                         *)
(* Scheduling.  Every wrapper invocation is a coroutine of the server's    *)
(* single event loop, so two wrappers interleave only where one of them    *)
(* suspends.  The only suspension inside the wrapper is the awaited Task   *)
(* Function of the synchronous branch (the routes await run_in_threadpool);*)
(* `await current_user_id(...)` runs synchronous code and never yields.    *)
(* ev_running names the wrapper that currently owns the event loop.  The   *)
(* worker is a real thread: its steps interleave with every wrapper step   *)
(* that touches task_queue.                                                *)
(*                                                                         *)
(* Also modelled: API-key verification ahead of the wrapper                *)
(* (verify_api_key, src/services/key_management.py) in SpecAuth, and the   *)
(* user routes over the users table (src/routes/user_routes.py,            *)
(* src/services/user_service.py) in SpecUsers and SpecUserTable; the key   *)
(* manager over its table in SpecKeys; password reset in SpecReset; login, *)
(* logout and the token blacklist in SpecSessions.                         *)
(***************************************************************************)
EXTENDS Integers, Sequences, FiniteSets, TLC

\* Bounds of the model.
NumReqs == 2
MaxCapacity == 2
MaxTime == 1
MaxUsers == 2
MaxKeys == 2
MaxResets == 2
MaxTokens == 2
MaxTicks == 3

Reqs == 1..NumReqs
Capacities == 0..MaxCapacity

\* Python's None, and the values a request body can carry.
None == "None"
Url == "http://cb"
UserId == "u1"

\* The requests a client sends: the route's bypass_queue flag and the body's
\* webhook_url and id.
RequestKinds ==
    { [bq |-> FALSE, wh |-> None, cid |-> None],
      [bq |-> FALSE, wh |-> "", cid |-> "a"],
      [bq |-> TRUE, wh |-> Url, cid |-> "a"],
      [bq |-> FALSE, wh |-> Url, cid |-> "a"] }
NoJob == [job_id |-> 0]
NoResponse == [status_code |-> 0]
PID == "pid"
QUEUE_ID == "queue_id"
BUILD_NUMBER == "build"

\* What a Task Function can do: return (payload, route, status) or raise.
TaskOutcomes ==
    { [raised |-> FALSE, payload |-> "ok", route |-> "/x", status |-> 200],
      [raised |-> FALSE, payload |-> "failed", route |-> "/x", status |-> 500],
      [raised |-> FALSE, payload |-> "invalid", route |-> "/x", status |-> 400],
      [raised |-> TRUE, payload |-> "boom", route |-> "/x", status |-> 0] }

\* The api_keys table: key -> (is_active, expires_at); expires_at is NULL (the
\* empty tuple) or holds an instant of the clock.
api_keys ==
    [k \in {"k_ok", "k_revoked", "k_expired"} |->
        [is_active |-> k # "k_revoked",
         expires_at |-> IF k = "k_expired" THEN <<-1>> ELSE <<>>]]

\* What a caller can send as x-api-key: nothing, a key that is not in the
\* table, or one of its keys.
HeaderValues == {None, "k_unknown"} \cup DOMAIN api_keys

\* models/user_model.py: the Role enum, and the e-mail addresses and user names
\* a request can carry.
Roles == {"user", "admin", "super_admin"}
Emails == {"e1", "e2"}
Usernames == {"n1", "n2"}
UserIds == 1..MaxUsers

\* A field of a request body that was not sent (exclude_unset drops it).
Unset == "unset"

\* No Task Function has returned or raised yet.
NoOutcome == [raised |-> FALSE, payload |-> None, route |-> None, status |-> 0]

VARIABLES
    MAX_QUEUE_LENGTH,  \* the configured capacity, fixed at import time
    task_queue,        \* Queue(): the waiting jobs, oldest first
    unfinished_tasks,  \* Queue.unfinished_tasks: put() adds, task_done() subtracts
    uuidCount,         \* number of uuid4() tokens drawn so far
    now,               \* the last value time.time() returned, in half milliseconds
    max_now,           \* the value the clock reaches by the end of the run
    start_time,        \* per request: start_time of the wrapper
    ev_running,        \* the wrapper that owns the event loop, 0 when none
    pc,                \* per request: position in the wrapper
    bypass_queue,      \* per request: the decorator flag of its route
    data,              \* per request: the flat parameter mapping
    x_api_key,         \* per request: the x-api-key header it carried
    job_id,            \* per request: request.state.job_id
    qsize_at_check,    \* per request: task_queue.qsize() as read at the capacity check
    response,          \* per request: the JSONResponse returned
    wpc,               \* the worker's position in process_queue
    cur,               \* the tuple the worker took from the queue
    wenv,              \* the envelope process_task built for cur
    queue_time,        \* process_task's local queue_time
    run_start_time,    \* process_task's local run_start_time
    outcome,           \* log, per request: what its Task Function returned or raised
    gate_calls,        \* log, per request: Task Function invocations by the wrapper
    started,           \* log: job ids in the order the worker invoked their Task Function
    pushed,            \* log: job ids in the order of task_queue.put
    webhooks,          \* log: every delivery attempt of send_webhook
    users,             \* the users table: id -> (email, username, role,
                       \*   hashed_password, reset_token)
    userCount,         \* number of user ids drawn so far
    created_by,        \* log, per user id: the endpoint and caller that created it
    last_call,         \* log: the last request to the user routes and its status
    key_rows,          \* the api_keys table as it evolves: key_id -> row
    keyIdCount,        \* number of key ids drawn so far
    keyCount,          \* number of key secrets drawn so far
    revoked,           \* log: the keys for which revoke_key has succeeded
    last_key_call,     \* log: the last call to the key manager and its result
    clock,             \* datetime.utcnow(), in minutes
    jwts,              \* the access tokens issued so far, each with its claims (sub, exp)
    token_blacklist,   \* the token_blacklist table: rows (token, expiry)
    local_offset,      \* the offset of the process's local time zone, once read
    logged_out,        \* log: the tokens with which a logout has succeeded
    last_auth,         \* log: the last token-authenticated request and its status
    issued_to,         \* log, per reset token drawn: the user it was issued to
    spent,             \* log: the reset tokens with which reset_password has succeeded
    last_reset         \* log: the last forgot-password or reset-password call

vars == <<MAX_QUEUE_LENGTH, task_queue, unfinished_tasks, uuidCount, now, max_now,
          start_time,
          ev_running, pc, bypass_queue, data, x_api_key, job_id, qsize_at_check,
          response,
          wpc, cur, wenv, queue_time, run_start_time, outcome, gate_calls, started,
          pushed, webhooks, users, userCount, created_by, last_call,
          key_rows, keyIdCount, keyCount, revoked, last_key_call,
          clock, jwts, token_blacklist, local_offset, logged_out, last_auth,
          issued_to, spent, last_reset>>

userVars == <<users, userCount, created_by, last_call>>
keyVars == <<key_rows, keyIdCount, keyCount, revoked, last_key_call>>
sessionVars == <<clock, jwts, token_blacklist, local_offset, logged_out, last_auth>>
resetVars == <<issued_to, spent, last_reset>>

\* Everything the sqlite database holds, with the logs kept about it.
dbVars == <<userVars, keyVars, sessionVars, resetVars>>

----------------------------------------------------------------------------
\* Pure helpers.

\* Python truthiness of an optional string.
Truthy(v) == v # None /\ v # ""

\* dict.get(key): None when the key is absent.
Get(d, k) == IF k \in DOMAIN d THEN d[k] ELSE None

\* uuid.uuid4(): a token never drawn before.
Uuid4(n) == n + 1

\* A variant of is_key_valid that does not look at is_active.
IsKeyValid_IgnoresActive(api_key, t) ==
    /\ api_key \in DOMAIN api_keys
    /\ IF api_keys[api_key].expires_at = <<>>
         THEN TRUE
         ELSE ~(api_keys[api_key].expires_at[1] < t)

\* KeyManager.is_key_valid at instant t: the key has a row, the row is active
\* and its expires_at, when set, is not in the past.
IsKeyValid(api_key, t) ==
    /\ api_key \in DOMAIN api_keys
    /\ api_keys[api_key].is_active
    /\ IF api_keys[api_key].expires_at = <<>>
         THEN TRUE
         ELSE ~(api_keys[api_key].expires_at[1] < t)

\* The dependency verify_api_key: the status the request is refused with, 200
\* when it goes on to the endpoint.  x_api_key is a required header
\* (Header(...)): without it the framework answers 422 and verify_api_key is
\* not called.
VerifyApiKey(header, t) ==
    IF header = None THEN 422
    ELSE IF ~IsKeyValid(header, t) THEN 401
    ELSE 200

\* Requests are numbered in the order they arrive.
NextToArrive(r) == pc[r] = "idle" /\ \A q \in Reqs : q < r => pc[q] # "idle"

\* Variants of the branch: one that tests `is None` instead of truthiness, one
\* that forgets the decorator flag.
TakesSyncPath_IsNone(bq, d) == bq \/ Get(d, "webhook_url") = None
TakesSyncPath_NoBypass(bq, d) == ~Truthy(Get(d, "webhook_url"))

\* The branch at line 115.
TakesSyncPath(bq, d) == bq \/ ~Truthy(Get(d, "webhook_url"))

\* Variants of the capacity check: `>` for `>=`, a limit hit one job early, and a
\* check that drops the `MAX_QUEUE_LENGTH > 0` guard.
QueueFull_Strict(qsize) == MAX_QUEUE_LENGTH > 0 /\ qsize > MAX_QUEUE_LENGTH
QueueFull_OffByOne(qsize) == MAX_QUEUE_LENGTH > 0 /\ qsize + 1 >= MAX_QUEUE_LENGTH
QueueFull_NoGuard(qsize) == qsize >= MAX_QUEUE_LENGTH

\* A variant that tests the unfinished count (waiting jobs and the job in the
\* worker's hands) instead of qsize().
QueueFull_CountsRunning(qsize) ==
    MAX_QUEUE_LENGTH > 0 /\ unfinished_tasks >= MAX_QUEUE_LENGTH

\* The capacity check at line 153.
QueueFull(qsize) == MAX_QUEUE_LENGTH > 0 /\ qsize >= MAX_QUEUE_LENGTH

\* A variant of get() that takes the newest element (a LifoQueue).
QueueGet_Lifo(q) == <<q[Len(q)], SubSeq(q, 1, Len(q) - 1)>>

\* A variant of get() that reads the oldest element without removing it.
QueueGet_Peek(q) == <<Head(q), q>>

\* task_queue.get(): the oldest element and the rest.
QueueGet(q) == <<Head(q), Tail(q)>>

\* A variant of put() that drops a job whose client id is already waiting.
QueuePut_DedupById(q, item) ==
    IF \E i \in DOMAIN q : Get(q[i].data, "id") = Get(item.data, "id")
      THEN q
      ELSE Append(q, item)

\* task_queue.put(item).
QueuePut(q, item) == Append(q, item)

\* time.time(): the clock never runs backwards between two reads.
ClockReads(t) == t..max_now

\* round(x, 3): seconds to the nearest millisecond (the clock counts halves).
Round3(h) == (h + 1) \div 2

\* f"MAX_QUEUE_LENGTH ({MAX_QUEUE_LENGTH}) reached"
LimitMessage(n) == "MAX_QUEUE_LENGTH (" \o ToString(n) \o ") reached"

----------------------------------------------------------------------------
\* The envelopes, field by field as the code builds them.

\* A variant that adds the time spent before the call to total_time and fills
\* response whatever the status.
SyncSuccessResponse_Loose(r, out, run_time, qsize) ==
    [status_code |-> out.status,
     content |->
       [endpoint |-> out.route,
        code |-> out.status,
        id |-> Get(data[r], "id"),
        user_id |-> data[r].user_id,
        job_id |-> job_id[r],
        response |-> out.payload,
        message |-> IF out.status = 200 THEN "success" ELSE out.payload,
        run_time |-> Round3(run_time),
        queue_time |-> 0,
        total_time |-> Round3(run_time + start_time[r]),
        pid |-> PID,
        queue_id |-> QUEUE_ID,
        queue_length |-> qsize,
        build_number |-> BUILD_NUMBER]]

\* Lines 119-137: the synchronous response when the Task Function returned.
SyncSuccessResponse(r, out, run_time, qsize) ==
    [status_code |-> out.status,
     content |->
       [endpoint |-> out.route,
        code |-> out.status,
        id |-> Get(data[r], "id"),
        user_id |-> data[r].user_id,
        job_id |-> job_id[r],
        response |-> IF out.status = 200 THEN out.payload ELSE None,
        message |-> IF out.status = 200 THEN "success" ELSE out.payload,
        run_time |-> Round3(run_time),
        queue_time |-> 0,
        total_time |-> Round3(run_time),
        pid |-> PID,
        queue_id |-> QUEUE_ID,
        queue_length |-> qsize,
        build_number |-> BUILD_NUMBER]]

\* Lines 138-151: the synchronous response when the Task Function raised.
SyncErrorResponse(r, out, qsize) ==
    [status_code |-> 500,
     content |->
       [code |-> 500,
        message |-> out.payload,
        job_id |-> job_id[r],
        user_id |-> data[r].user_id,
        pid |-> PID,
        queue_id |-> QUEUE_ID,
        queue_length |-> qsize,
        build_number |-> BUILD_NUMBER]]

\* A variant that leaves JSONResponse's status_code at its default.
RejectResponse_DefaultStatus(r, qsize) ==
    [status_code |-> 200,
     content |->
       [code |-> 429,
        id |-> Get(data[r], "id"),
        job_id |-> job_id[r],
        user_id |-> data[r].user_id,
        message |-> LimitMessage(MAX_QUEUE_LENGTH),
        pid |-> PID,
        queue_id |-> QUEUE_ID,
        queue_length |-> qsize,
        build_number |-> BUILD_NUMBER]]

\* Lines 154-167: the rejection.
RejectResponse(r, qsize) ==
    [status_code |-> 429,
     content |->
       [code |-> 429,
        id |-> Get(data[r], "id"),
        job_id |-> job_id[r],
        user_id |-> data[r].user_id,
        message |-> LimitMessage(MAX_QUEUE_LENGTH),
        pid |-> PID,
        queue_id |-> QUEUE_ID,
        queue_length |-> qsize,
        build_number |-> BUILD_NUMBER]]

\* A variant that answers an accepted request as if the task had succeeded.
AckResponse_AsResult(r, qsize) ==
    [status_code |-> 200,
     content |->
       [code |-> 200,
        id |-> Get(data[r], "id"),
        job_id |-> job_id[r],
        response |-> None,
        message |-> "success",
        pid |-> PID,
        queue_id |-> QUEUE_ID,
        user_id |-> data[r].user_id,
        max_queue_length |->
            IF MAX_QUEUE_LENGTH > 0 THEN MAX_QUEUE_LENGTH ELSE "unlimited",
        queue_length |-> qsize,
        build_number |-> BUILD_NUMBER]]

\* A variant that counts the job being executed as still queued.
AckResponse_CountsRunning(r, qsize) ==
    [status_code |-> 202,
     content |->
       [code |-> 202,
        id |-> Get(data[r], "id"),
        job_id |-> job_id[r],
        message |-> "processing",
        pid |-> PID,
        queue_id |-> QUEUE_ID,
        user_id |-> data[r].user_id,
        max_queue_length |->
            IF MAX_QUEUE_LENGTH > 0 THEN MAX_QUEUE_LENGTH ELSE "unlimited",
        queue_length |-> qsize + 1,
        build_number |-> BUILD_NUMBER]]

\* Lines 171-185: the acknowledgement.
AckResponse(r, qsize) ==
    [status_code |-> 202,
     content |->
       [code |-> 202,
        id |-> Get(data[r], "id"),
        job_id |-> job_id[r],
        message |-> "processing",
        pid |-> PID,
        queue_id |-> QUEUE_ID,
        user_id |-> data[r].user_id,
        max_queue_length |->
            IF MAX_QUEUE_LENGTH > 0 THEN MAX_QUEUE_LENGTH ELSE "unlimited",
        queue_length |-> qsize,
        build_number |-> BUILD_NUMBER]]

\* A variant that reports every status other than 200 as 500.
WorkerSuccessEnvelope_Forced500(job, out, run_time, q_time, total_time, qsize) ==
    [endpoint |-> out.route,
     code |-> IF out.status = 200 THEN 200 ELSE 500,
     id |-> Get(job.data, "id"),
     user_id |-> Get(job.data, "user_id"),
     job_id |-> job.job_id,
     response |-> IF out.status = 200 THEN out.payload ELSE None,
     message |-> IF out.status = 200 THEN "success" ELSE out.payload,
     pid |-> PID,
     queue_id |-> QUEUE_ID,
     run_time |-> Round3(run_time),
     queue_time |-> Round3(q_time),
     total_time |-> Round3(total_time),
     queue_length |-> qsize,
     build_number |-> BUILD_NUMBER]

\* A variant that derives queue_id from the job at hand instead of the
\* process-wide queue.
WorkerSuccessEnvelope_PerJobQueueId(job, out, run_time, q_time, total_time, qsize) ==
    [endpoint |-> out.route,
     code |-> out.status,
     id |-> Get(job.data, "id"),
     user_id |-> Get(job.data, "user_id"),
     job_id |-> job.job_id,
     response |-> IF out.status = 200 THEN out.payload ELSE None,
     message |-> IF out.status = 200 THEN "success" ELSE out.payload,
     pid |-> PID,
     queue_id |-> job.task_func,
     run_time |-> Round3(run_time),
     queue_time |-> Round3(q_time),
     total_time |-> Round3(total_time),
     queue_length |-> qsize,
     build_number |-> BUILD_NUMBER]

\* Lines 50-65: the worker's envelope when the Task Function returned.
WorkerSuccessEnvelope(job, out, run_time, q_time, total_time, qsize) ==
    [endpoint |-> out.route,
     code |-> out.status,
     id |-> Get(job.data, "id"),
     user_id |-> Get(job.data, "user_id"),
     job_id |-> job.job_id,
     response |-> IF out.status = 200 THEN out.payload ELSE None,
     message |-> IF out.status = 200 THEN "success" ELSE out.payload,
     pid |-> PID,
     queue_id |-> QUEUE_ID,
     run_time |-> Round3(run_time),
     queue_time |-> Round3(q_time),
     total_time |-> Round3(total_time),
     queue_length |-> qsize,
     build_number |-> BUILD_NUMBER]

\* A variant that hides the fault's text and keeps an empty response field.
WorkerErrorEnvelope_Generic(job, out, qsize) ==
    [code |-> 500,
     id |-> Get(job.data, "id"),
     job_id |-> job.job_id,
     response |-> None,
     message |-> "Internal Server Error",
     pid |-> PID,
     queue_id |-> QUEUE_ID,
     queue_length |-> qsize,
     build_number |-> BUILD_NUMBER]

\* Lines 71-80: the worker's envelope when the Task Function raised.
WorkerErrorEnvelope(job, out, qsize) ==
    [code |-> 500,
     id |-> Get(job.data, "id"),
     job_id |-> job.job_id,
     message |-> out.payload,
     pid |-> PID,
     queue_id |-> QUEUE_ID,
     queue_length |-> qsize,
     build_number |-> BUILD_NUMBER]

----------------------------------------------------------------------------
\* The state after import: an empty queue, an idle worker blocked in get().

InitQueue ==
    /\ MAX_QUEUE_LENGTH \in Capacities
    /\ task_queue = <<>>
    /\ unfinished_tasks = 0
    /\ uuidCount = 0
    /\ now = 0
    /\ start_time = [r \in Reqs |-> 0]
    /\ ev_running = 0
    /\ pc = [r \in Reqs |-> "idle"]
    /\ bypass_queue = [r \in Reqs |-> FALSE]
    /\ data = [r \in Reqs |-> [user_id |-> None]]
    /\ x_api_key = [r \in Reqs |-> None]
    /\ job_id = [r \in Reqs |-> 0]
    /\ qsize_at_check = [r \in Reqs |-> 0]
    /\ response = [r \in Reqs |-> NoResponse]
    /\ wpc = "get"
    /\ cur = NoJob
    /\ wenv = NoJob
    /\ queue_time = 0
    /\ run_start_time = 0
    /\ outcome = [r \in Reqs |-> NoOutcome]
    /\ gate_calls = [r \in Reqs |-> 0]
    /\ started = <<>>
    /\ pushed = <<>>
    /\ webhooks = <<>>
    /\ users = <<>>
    /\ userCount = 0
    /\ created_by = <<>>
    /\ last_call = [op |-> None]
    /\ key_rows = <<>>
    /\ keyIdCount = 0
    /\ keyCount = 0
    /\ revoked = {}
    /\ last_key_call = [op |-> None]
    /\ clock = 0
    /\ jwts = {}
    /\ token_blacklist = {}
    /\ local_offset = <<>>
    /\ logged_out = {}
    /\ last_auth = [op |-> None]
    /\ issued_to = <<>>
    /\ spent = {}
    /\ last_reset = [op |-> None]

\* Runs short enough that every clock read returns the same value.
Init == InitQueue /\ max_now = 0

\* Runs during which the clock advances.
InitClock == InitQueue /\ max_now = MaxTime

\* The database specifications leave the queue alone: its capacity is the
\* default, 0.
InitStore == Init /\ MAX_QUEUE_LENGTH = 0

workerVars == <<wpc, cur, wenv, queue_time, run_start_time, started, webhooks>>
inputVars == <<MAX_QUEUE_LENGTH, max_now, bypass_queue, data, x_api_key, job_id, uuidCount,
               start_time>>

----------------------------------------------------------------------------
\* queue_task.wrapper.

\* A variant with a suspension point between the capacity check and the put.
LoopOwner_Yields(r, sync) == 0

\* A variant whose synchronous branch runs the Task Function on the event loop
\* without suspending.
LoopOwner_Blocks(r, sync) == r

\* Who owns the event loop once the wrapper has chosen its branch: lines
\* 153-185 contain no await, so on the asynchronous branch the wrapper runs to
\* its return without yielding; on the synchronous branch it suspends at line
\* 117.
LoopOwner(r, sync) == IF sync THEN 0 ELSE r

\* Lines 101-117: request r (the r-th to arrive) enters the wrapper on the event
\* loop with route flag bq and body (cid, wh); on the synchronous branch the Task
\* Function is invoked and the wrapper suspends in it, on the asynchronous branch
\* the wrapper keeps the event loop.
Begin(r, bq, wh, cid, uid) ==
    /\ NextToArrive(r)
    /\ ev_running = 0
    /\ \E header \in HeaderValues :
         /\ VerifyApiKey(header, now) = 200
         /\ x_api_key' = [x_api_key EXCEPT ![r] = header]
    /\ uuidCount' = uuidCount + 1
    /\ job_id' = [job_id EXCEPT ![r] = Uuid4(uuidCount)]
    /\ bypass_queue' = [bypass_queue EXCEPT ![r] = bq]
    /\ data' = [data EXCEPT ![r] = [id |-> cid, webhook_url |-> wh, user_id |-> uid]]
    /\ \E t \in ClockReads(now) :
         /\ now' = t
         /\ start_time' = [start_time EXCEPT ![r] = t]
    /\ IF TakesSyncPath(bq, data'[r])
         THEN /\ pc' = [pc EXCEPT ![r] = "sync_await"]
              /\ gate_calls' = [gate_calls EXCEPT ![r] = @ + 1]
         ELSE /\ pc' = [pc EXCEPT ![r] = "check"]
              /\ gate_calls' = gate_calls
    /\ ev_running' = LoopOwner(r, TakesSyncPath(bq, data'[r]))
    /\ UNCHANGED <<MAX_QUEUE_LENGTH, max_now, task_queue, unfinished_tasks,
                   qsize_at_check, response, pushed>>
    /\ UNCHANGED workerVars
    /\ UNCHANGED outcome
    /\ UNCHANGED dbVars

\* Lines 23-29 (and the routes' Depends(verify_api_key)): the dependency is
\* resolved before the endpoint, that is before the wrapper, is called; the
\* request is answered 401 (or 422) and the wrapper never runs.
Refuse(r, header) ==
    /\ NextToArrive(r)
    /\ ev_running = 0
    /\ VerifyApiKey(header, now) # 200
    /\ x_api_key' = [x_api_key EXCEPT ![r] = header]
    /\ response' = [response EXCEPT ![r] =
           [status_code |-> VerifyApiKey(header, now),
            content |-> [detail |-> IF header = None
                                      THEN "field required"
                                      ELSE "Invalid API key generate new key from"]]]
    /\ pc' = [pc EXCEPT ![r] = "refused"]
    /\ UNCHANGED <<MAX_QUEUE_LENGTH, max_now, bypass_queue, data, job_id, uuidCount,
                   start_time, task_queue, unfinished_tasks, now, ev_running,
                   qsize_at_check, gate_calls, pushed, outcome>>
    /\ UNCHANGED workerVars
    /\ UNCHANGED dbVars

\* Lines 117-151: the awaited Task Function returns or raises; the wrapper resumes
\* on the event loop and returns the response.
SyncReturn(r, out) ==
    /\ pc[r] = "sync_await"
    /\ ev_running = 0
    /\ \E t \in ClockReads(now) :
         /\ now' = t
         /\ response' = [response EXCEPT ![r] =
                IF out.raised
                  THEN SyncErrorResponse(r, out, Len(task_queue))
                  ELSE SyncSuccessResponse(r, out, t - start_time[r], Len(task_queue))]
    /\ pc' = [pc EXCEPT ![r] = "done"]
    /\ UNCHANGED <<task_queue, unfinished_tasks, ev_running, qsize_at_check,
                   gate_calls, pushed>>
    /\ UNCHANGED inputVars
    /\ UNCHANGED workerVars
    /\ outcome' = [outcome EXCEPT ![r] = out]
    /\ UNCHANGED dbVars

\* Line 153: the capacity check reads qsize().
CheckCapacity(r) ==
    /\ pc[r] = "check"
    /\ qsize_at_check' = [qsize_at_check EXCEPT ![r] = Len(task_queue)]
    /\ pc' = [pc EXCEPT ![r] = IF QueueFull(Len(task_queue)) THEN "reject" ELSE "put"]
    /\ UNCHANGED <<task_queue, unfinished_tasks, now, ev_running, response, gate_calls,
                   pushed>>
    /\ UNCHANGED inputVars
    /\ UNCHANGED workerVars
    /\ UNCHANGED outcome
    /\ UNCHANGED dbVars

\* Lines 154-167: the 429 response (qsize() is read again for queue_length).
Reject(r) ==
    /\ pc[r] = "reject"
    /\ response' = [response EXCEPT ![r] = RejectResponse(r, Len(task_queue))]
    /\ pc' = [pc EXCEPT ![r] = "done"]
    /\ ev_running' = 0
    /\ UNCHANGED <<task_queue, unfinished_tasks, now, qsize_at_check, gate_calls,
                   pushed>>
    /\ UNCHANGED inputVars
    /\ UNCHANGED workerVars
    /\ UNCHANGED outcome
    /\ UNCHANGED dbVars

\* Line 169: task_queue.put((job_id, data, lambda: func(...), start_time)).
Put(r) ==
    /\ pc[r] = "put"
    /\ task_queue' = QueuePut(task_queue,
            [job_id |-> job_id[r], data |-> data[r], task_func |-> r,
             queue_start_time |-> start_time[r]])
    /\ unfinished_tasks' = unfinished_tasks + 1
    /\ pushed' = Append(pushed, job_id[r])
    /\ pc' = [pc EXCEPT ![r] = "ack"]
    /\ UNCHANGED <<now, ev_running, qsize_at_check, response, gate_calls>>
    /\ UNCHANGED inputVars
    /\ UNCHANGED workerVars
    /\ UNCHANGED outcome
    /\ UNCHANGED dbVars

\* Lines 171-185: the 202 response (qsize() is read for queue_length).
Ack(r) ==
    /\ pc[r] = "ack"
    /\ response' = [response EXCEPT ![r] = AckResponse(r, Len(task_queue))]
    /\ pc' = [pc EXCEPT ![r] = "done"]
    /\ ev_running' = 0
    /\ UNCHANGED <<task_queue, unfinished_tasks, now, qsize_at_check, gate_calls,
                   pushed>>
    /\ UNCHANGED inputVars
    /\ UNCHANGED workerVars
    /\ UNCHANGED outcome
    /\ UNCHANGED dbVars

----------------------------------------------------------------------------
\* process_queue, the worker thread.

\* A variant that schedules process_task without waiting for it to finish.
WorkerMayGet_Eager == wpc \in {"get", "running"}

\* Line 85: the loop is back at task_queue.get() only when process_task is over
\* (run_until_complete returns when the coroutine has finished).
WorkerMayGet == wpc = "get"

\* A variant without the except clause: a raised fault ends the thread.
AfterTask_Uncaught(out) == IF out.raised THEN "dead" ELSE "notify"

\* Lines 44-83: the try/except of process_task; whether the Task Function
\* returned or raised, process_task goes on to the webhook step.
AfterTask(out) == "notify"

\* Lines 86 and 41-46: the blocking get(), then process_task reads the clock
\* twice and invokes the Task Function.
WorkerGet ==
    /\ WorkerMayGet
    /\ task_queue # <<>>
    /\ cur' = QueueGet(task_queue)[1]
    /\ task_queue' = QueueGet(task_queue)[2]
    /\ \E t1 \in ClockReads(now) : \E t2 \in ClockReads(t1) :
         /\ queue_time' = t1 - cur'.queue_start_time
         /\ run_start_time' = t2
         /\ now' = t2
    /\ started' = Append(started, cur'.job_id)
    /\ wpc' = "running"
    /\ UNCHANGED <<unfinished_tasks, ev_running, pc, qsize_at_check, response,
                   wenv, gate_calls, pushed, webhooks>>
    /\ UNCHANGED inputVars
    /\ UNCHANGED outcome
    /\ UNCHANGED dbVars

\* Lines 46-65 and 70-80: the Task Function returns or raises and the envelope
\* is built.
WorkerFinish(out) ==
    /\ wpc = "running"
    /\ IF out.raised
         THEN /\ wenv' = WorkerErrorEnvelope(cur, out, Len(task_queue))
              /\ now' = now
         ELSE \E t3 \in ClockReads(now) : \E t4 \in ClockReads(t3) :
                /\ wenv' = WorkerSuccessEnvelope(cur, out, t3 - run_start_time,
                               queue_time, t4 - cur.queue_start_time, Len(task_queue))
                /\ now' = t4
    /\ wpc' = AfterTask(out)
    /\ UNCHANGED <<task_queue, unfinished_tasks, ev_running, pc, qsize_at_check,
                   response, cur, queue_time, run_start_time, gate_calls, started,
                   pushed, webhooks>>
    /\ UNCHANGED inputVars
    /\ outcome' = [outcome EXCEPT ![cur.task_func] = out]
    /\ UNCHANGED dbVars

\* A variant of send_webhook without the except clause: a failed POST raises.
SendWebhookRaises_Propagates(delivered) == ~delivered

\* send_webhook, lines 8-16: every Exception of the POST (connection error,
\* raise_for_status on a non-2xx answer) is caught and logged; nothing is raised.
SendWebhookRaises(delivered) == FALSE

\* Lines 67-68 and 82-83 with send_webhook, then line 91: one POST when the job
\* has a webhook_url, task_done(), and back to the top of the loop.  The call at
\* line 68 is inside the try block: an exception raised there would run the
\* except clause (lines 70-83, a second POST); one raised at line 83 would leave
\* process_task and end the thread.
WorkerNotify(delivered) ==
    /\ wpc = "notify"
    /\ webhooks' =
         IF Truthy(Get(cur.data, "webhook_url"))
           THEN Append(webhooks,
                  [url |-> cur.data.webhook_url, body |-> wenv, delivered |-> delivered])
           ELSE webhooks
    /\ IF Truthy(Get(cur.data, "webhook_url")) /\ SendWebhookRaises(delivered)
         THEN /\ IF "endpoint" \in DOMAIN wenv
                   THEN /\ wenv' = WorkerErrorEnvelope(cur,
                                      [raised |-> TRUE, payload |-> "delivery",
                                       route |-> None, status |-> 0],
                                      Len(task_queue))
                        /\ wpc' = "notify"
                   ELSE /\ wenv' = wenv
                        /\ wpc' = "dead"
              /\ UNCHANGED <<unfinished_tasks, cur>>
         ELSE /\ unfinished_tasks' = unfinished_tasks - 1
              /\ cur' = NoJob
              /\ wenv' = NoJob
              /\ wpc' = "get"
    /\ UNCHANGED <<task_queue, now, ev_running, pc, qsize_at_check, response,
                   queue_time, run_start_time, gate_calls, started, pushed>>
    /\ UNCHANGED inputVars
    /\ UNCHANGED outcome
    /\ UNCHANGED dbVars

Worker ==
    \/ WorkerGet
    \/ \E out \in TaskOutcomes : WorkerFinish(out)
    \/ \E delivered \in BOOLEAN : WorkerNotify(delivered)

Wrapper(r) ==
    \/ \E k \in RequestKinds : Begin(r, k.bq, k.wh, k.cid, UserId)
    \/ \E out \in TaskOutcomes : SyncReturn(r, out)
    \/ CheckCapacity(r)
    \/ Reject(r)
    \/ Put(r)
    \/ Ack(r)

Next == (\E r \in Reqs : Wrapper(r)) \/ Worker

Spec == Init /\ [][Next]_vars

SpecClock == InitClock /\ [][Next]_vars

\* Spec takes its callers to present valid keys; SpecAuth lets them send any
\* x-api-key header.
NextAuth == Next \/ \E r \in Reqs : \E header \in HeaderValues : Refuse(r, header)

SpecAuth == Init /\ [][NextAuth]_vars

\* The worker thread is scheduled whenever it can run, and a Task Function it
\* awaits eventually returns or raises.
FairSpec == Spec /\ WF_vars(Worker)

----------------------------------------------------------------------------
\* The user routes (src/routes/user_routes.py) over the users table
\* (src/services/user_service.py).  The handlers make no await between reading
\* and writing the table, so each request is one step.

queueVars == <<MAX_QUEUE_LENGTH, task_queue, unfinished_tasks, uuidCount, now, max_now,
               start_time, ev_running, pc, bypass_queue, data, x_api_key, job_id,
               qsize_at_check, response, wpc, cur, wenv, queue_time, run_start_time,
               outcome, gate_calls, started, pushed, webhooks>>

\* Who sends a request: nobody the server knows (no or no valid bearer token),
\* or a stored user holding a valid token.
Anonymous == 0
Callers == {Anonymous} \cup DOMAIN users
RoleOf(caller) == IF caller = Anonymous THEN "anonymous" ELSE users[caller].role

\* get_user_by_email(email) is not None.
EmailTaken(email) == \E u \in DOMAIN users : users[u].email = email

\* A variant of register_user that hands the body's role to create_user.
RegisterRoleArg_FromBody(body_role) == body_role

\* register_user, lines 85-90: create_user is called without a role.
RegisterRoleArg(body_role) == None

\* create_user, lines 66-77: no role means Role.USER.
CreateRole(role) == IF role = None THEN "user" ELSE role

\* create_user, lines 80-83: 400 when the e-mail or the user name is stored.
CreateUserStatus(email, username) ==
    IF \E u \in DOMAIN users :
          users[u].email = email \/ users[u].username = username
      THEN 400
      ELSE 200

\* pwd_context.hash and verify: a hash matches the password it was made of
\* and no other.
Hash(password) == <<"bcrypt", password>>

\* The password the accounts of the model are registered with, and the
\* passwords a reset can set.
RegisterPassword == "p0"
Passwords == {"p1", "p2"}

\* The common shape of the three creating routes: 400 when the e-mail is known
\* (get_user_by_email), else create_user with the role the route passes.
CreateUserVia(op, caller, email, username, role) ==
    LET status == IF EmailTaken(email) THEN 400 ELSE CreateUserStatus(email, username)
        id == userCount + 1
    IN /\ status = 200 => userCount < MaxUsers
       /\ last_call' = [op |-> op, caller_role |-> RoleOf(caller), status |-> status]
       /\ IF status = 200
            THEN /\ users' = users @@
                       (id :> [email |-> email, username |-> username,
                               role |-> CreateRole(role),
                               hashed_password |-> Hash(RegisterPassword),
                               reset_token |-> <<>>])
                 /\ userCount' = id
                 /\ created_by' = created_by @@
                       (id :> [via |-> op, caller_role |-> RoleOf(caller),
                               role |-> CreateRole(role)])
            ELSE UNCHANGED <<users, userCount, created_by>>
       /\ UNCHANGED queueVars
       /\ UNCHANGED <<keyVars, sessionVars, resetVars>>

\* POST /users/register, lines 71-92 (no authentication).
RegisterUser(email, username, body_role) ==
    CreateUserVia("register", Anonymous, email, username, RegisterRoleArg(body_role))

\* POST /users/create-super-admin, lines 223-244: the handler has no
\* dependency on the caller; whatever credentials the request carries are
\* ignored.
CreateSuperAdmin(caller, email, username) ==
    CreateUserVia("create-super-admin", caller, email, username, "super_admin")

\* POST /users/create-admin, lines 246-269: likewise.
CreateAdmin(caller, email, username) ==
    CreateUserVia("create-admin", caller, email, username, "admin")

\* PUT /users/{user_id}, lines 122-160, with update_user (lines 186-224).
UpdateUserStatus(caller, user_id, body_role, body_email) ==
    IF caller = Anonymous THEN 401
    ELSE IF caller # user_id /\ users[caller].role \notin {"admin", "super_admin"} THEN 403
    ELSE IF body_role \notin {Unset, None} /\ users[caller].role # "super_admin" THEN 403
    ELSE IF body_role = "super_admin" THEN 403
    ELSE IF body_role = None THEN 400
    ELSE IF user_id \notin DOMAIN users THEN 404
    ELSE IF body_email # Unset /\
            \E u \in DOMAIN users \ {user_id} : users[u].email = body_email THEN 500
    ELSE 200

UpdateUserInfo(caller, user_id, body_role, body_email) ==
    LET status == UpdateUserStatus(caller, user_id, body_role, body_email)
    IN /\ last_call' = [op |-> "update", caller_role |-> RoleOf(caller), status |-> status]
       /\ users' =
            IF status = 200
              THEN [users EXCEPT ![user_id] =
                      [@ EXCEPT !.role = IF body_role = Unset THEN @ ELSE body_role,
                                !.email = IF body_email = Unset THEN @ ELSE body_email]]
              ELSE users
       /\ UNCHANGED <<userCount, created_by>>
       /\ UNCHANGED queueVars
       /\ UNCHANGED <<keyVars, sessionVars, resetVars>>

NextUsers ==
    \/ \E e \in Emails : \E n \in Usernames : \E role \in Roles \cup {None} :
          RegisterUser(e, n, role)
    \/ \E caller \in Callers : \E e \in Emails : \E n \in Usernames :
          CreateSuperAdmin(caller, e, n)
    \/ \E caller \in Callers : \E e \in Emails : \E n \in Usernames :
          CreateAdmin(caller, e, n)
    \/ \E caller \in Callers : \E user_id \in UserIds :
       \E body_role \in Roles \cup {Unset, None} : \E body_email \in Emails \cup {Unset} :
          UpdateUserInfo(caller, user_id, body_role, body_email)

SpecUsers == Init /\ [][NextUsers]_vars

\* A variant of the UNIQUE constraints that covers the e-mail only.
UniqueViolated_EmailOnly(t, user_id, email, username) ==
    \E u \in DOMAIN t \ {user_id} : email # Unset /\ t[u].email = email

\* Lines 21-23 of user_service.py, email TEXT UNIQUE and username TEXT UNIQUE:
\* writing (email, username) into the row of user_id would repeat a value of
\* another row of table t.
UniqueViolated(t, user_id, email, username) ==
    \E u \in DOMAIN t \ {user_id} :
        \/ email # Unset /\ t[u].email = email
        \/ username # Unset /\ t[u].username = username

\* update_user, lines 186-224, called with the fields email and username (or
\* one, or none of them): 404 when no row has the id, 500 (nothing committed)
\* when the UPDATE violates a UNIQUE constraint.
UpdateUser(user_id, body_email, body_username) ==
    LET status == IF user_id \notin DOMAIN users THEN 404
                  ELSE IF UniqueViolated(users, user_id, body_email, body_username)
                    THEN 500
                  ELSE 200
    IN /\ last_call' = [op |-> "update_user", caller_role |-> None, status |-> status]
       /\ users' =
            IF status = 200
              THEN [users EXCEPT ![user_id] =
                      [@ EXCEPT !.email = IF body_email = Unset THEN @ ELSE body_email,
                                !.username = IF body_username = Unset
                                               THEN @ ELSE body_username]]
              ELSE users
       /\ UNCHANGED <<userCount, created_by>>
       /\ UNCHANGED queueVars
       /\ UNCHANGED <<keyVars, sessionVars, resetVars>>

\* DELETE /users/{user_id}, lines 162-181, with delete_user (lines 226-237):
\* the caller deletes their own row, or is an admin or a super admin.
DeleteUserStatus(caller, user_id) ==
    IF caller = Anonymous THEN 401
    ELSE IF caller # user_id /\ users[caller].role \notin {"admin", "super_admin"} THEN 403
    ELSE IF user_id \notin DOMAIN users THEN 404
    ELSE 200

DeleteUser(caller, user_id) ==
    LET status == DeleteUserStatus(caller, user_id)
    IN /\ last_call' = [op |-> "delete", caller_role |-> RoleOf(caller), status |-> status]
       /\ users' = IF status = 200
                     THEN [u \in DOMAIN users \ {user_id} |-> users[u]]
                     ELSE users
       /\ UNCHANGED <<userCount, created_by>>
       /\ UNCHANGED queueVars
       /\ UNCHANGED <<keyVars, sessionVars, resetVars>>

\* The user table under creation, update and deletion.
NextUserTable ==
    \/ \E e \in Emails : \E n \in Usernames : RegisterUser(e, n, None)
    \/ \E e \in Emails : \E n \in Usernames : CreateAdmin(Anonymous, e, n)
    \/ \E user_id \in UserIds :
       \E body_email \in Emails \cup {Unset} : \E body_username \in Usernames \cup {Unset} :
          UpdateUser(user_id, body_email, body_username)
    \/ \E caller \in Callers : \E user_id \in UserIds : DeleteUser(caller, user_id)

SpecUserTable == InitStore /\ [][NextUserTable]_vars

----------------------------------------------------------------------------
\* Password reset: POST /users/forgot-password and /users/reset-password
\* (user_routes.py, lines 183-205) with create_password_reset_token and
\* reset_password (user_service.py, lines 239-289).  is_active is 1 in every
\* row (create_user inserts 1 and nothing changes it).

\* The tokens a caller can send: those drawn so far and some never drawn.
ResetTokenValues == 1..(MaxResets + 1)

\* A variant of the UPDATE that leaves reset_token in place.
AfterReset_KeepsToken(row, new_password) ==
    [row EXCEPT !.hashed_password = Hash(new_password)]

\* Lines 280-285: the UPDATE of reset_password.
AfterReset(row, new_password) ==
    [row EXCEPT !.hashed_password = Hash(new_password), !.reset_token = <<>>]

\* forgot_password: a new token (secrets.token_urlsafe) replaces whatever
\* reset_token the row of this e-mail held; 404 when no user has the e-mail.
ForgotPassword(email) ==
    LET match == {u \in DOMAIN users : users[u].email = email}
        token == Len(issued_to) + 1
    IN IF match = {}
         THEN /\ last_reset' = [op |-> "forgot_password", token |-> 0, status |-> 404]
              /\ UNCHANGED <<users, issued_to>>
              /\ UNCHANGED <<userCount, created_by, last_call, spent>>
              /\ UNCHANGED <<queueVars, keyVars, sessionVars>>
         ELSE /\ Len(issued_to) < MaxResets
              /\ users' = [u \in DOMAIN users |->
                             IF u \in match
                               THEN [users[u] EXCEPT !.reset_token = <<token>>]
                               ELSE users[u]]
              /\ issued_to' = Append(issued_to, CHOOSE u \in match : TRUE)
              /\ last_reset' = [op |-> "forgot_password", token |-> token, status |-> 200]
              /\ UNCHANGED <<userCount, created_by, last_call, spent>>
              /\ UNCHANGED <<queueVars, keyVars, sessionVars>>

\* reset_password: a row holds the token and its reset_token_expires is still
\* ahead (in_time: the 24 hours of the token have not passed when the call is
\* made); 400 otherwise.
ResetPassword(token, new_password, in_time) ==
    LET match == {u \in DOMAIN users : users[u].reset_token = <<token>>}
        found == match # {} /\ in_time
    IN /\ users' = IF found
                     THEN [u \in DOMAIN users |->
                             IF u \in match
                               THEN AfterReset(users[u], new_password)
                               ELSE users[u]]
                     ELSE users
       /\ spent' = IF found THEN spent \cup {token} ELSE spent
       /\ last_reset' = [op |-> "reset_password", token |-> token,
                         status |-> IF found THEN 200 ELSE 400]
       /\ UNCHANGED <<userCount, created_by, last_call, issued_to>>
       /\ UNCHANGED <<queueVars, keyVars, sessionVars>>

NextReset ==
    \/ \E e \in Emails : \E n \in Usernames : RegisterUser(e, n, None)
    \/ \E e \in Emails : ForgotPassword(e)
    \/ \E token \in ResetTokenValues : \E new_password \in Passwords :
       \E in_time \in BOOLEAN : ResetPassword(token, new_password, in_time)

SpecReset == InitStore /\ [][NextReset]_vars

----------------------------------------------------------------------------
\* Sessions: login, logout and the dependency get_current_user_from_token
\* (user_routes.py) with the token_blacklist table (user_service.py, lines
\* 424-460).  An access token is a signed encoding of its claims: two tokens
\* with the same claims are the same string.

\* Line 21.
ACCESS_TOKEN_EXPIRE_MINUTES == 30

\* The clock advances by quarters of an hour.
Quarter == ACCESS_TOKEN_EXPIRE_MINUTES \div 2

\* The offsets from UTC, in minutes, of the time zones the process may run in.
UtcOffsets == {-60, 0, 60}

\* A bearer string that jwt.decode rejects (not signed with SECRET_KEY).
Forged == [sub |-> 0, exp |-> 0]

\* jwt.decode, lines 42 and 284: the token is one this service signed and its
\* exp is still ahead; a PyJWTError otherwise.
Decodes(token, t) == token \in jwts /\ ~(token.exp <= t)

\* Line 285, datetime.fromtimestamp(exp): the naive local time of instant t.
LocalTime(t, offset) == t + offset

\* Lines 449-454: the DELETE that is_token_blacklisted runs first.
CleanedUp(blacklist, t) == {row \in blacklist : ~(row.expiry < t)}

TickClock ==
    /\ clock < MaxTicks * Quarter
    /\ clock' = clock + Quarter
    /\ UNCHANGED <<jwts, token_blacklist, local_offset, logged_out, last_auth>>
    /\ UNCHANGED <<queueVars, userVars, keyVars, resetVars>>

\* POST /users/login, lines 94-109, with authenticate_user and
\* create_access_token (lines 64-69).
Login(email, password) ==
    LET match == {u \in DOMAIN users :
                    users[u].email = email /\ users[u].hashed_password = Hash(password)}
        token == [sub |-> CHOOSE u \in match : TRUE,
                  exp |-> clock + ACCESS_TOKEN_EXPIRE_MINUTES]
    IN IF match = {}
         THEN /\ last_auth' = [op |-> "login", token |-> Forged, status |-> 401,
                               at |-> clock]
              /\ UNCHANGED <<clock, jwts, token_blacklist, local_offset, logged_out>>
              /\ UNCHANGED <<queueVars, userVars, keyVars, resetVars>>
         ELSE /\ token \in jwts \/ Cardinality(jwts) < MaxTokens
              /\ jwts' = jwts \cup {token}
              /\ last_auth' = [op |-> "login", token |-> token, status |-> 200,
                               at |-> clock]
              /\ UNCHANGED <<clock, token_blacklist, local_offset, logged_out>>
              /\ UNCHANGED <<queueVars, userVars, keyVars, resetVars>>

\* POST /users/logout, lines 271-299, with blacklist_token (lines 424-441):
\* 401 when the token does not decode, 500 when the INSERT fails (the token is
\* the primary key), else the row (token, local time of exp) is stored.  The
\* time zone of the process is read at the first conversion and stays.
Logout(token) ==
    IF ~Decodes(token, clock)
      THEN /\ last_auth' = [op |-> "logout", token |-> token, status |-> 401,
                            at |-> clock]
           /\ UNCHANGED <<clock, jwts, token_blacklist, local_offset, logged_out>>
           /\ UNCHANGED <<queueVars, userVars, keyVars, resetVars>>
      ELSE \E offset \in UtcOffsets :
           /\ local_offset # <<>> => offset = local_offset[1]
           /\ local_offset' = <<offset>>
           /\ IF \E row \in token_blacklist : row.token = token
                THEN /\ last_auth' = [op |-> "logout", token |-> token, status |-> 500,
                                      at |-> clock]
                     /\ UNCHANGED <<token_blacklist, logged_out>>
                ELSE /\ token_blacklist' = token_blacklist \cup
                           {[token |-> token, expiry |-> LocalTime(token.exp, offset)]}
                     /\ logged_out' = logged_out \cup {token}
                     /\ last_auth' = [op |-> "logout", token |-> token, status |-> 200,
                                      at |-> clock]
           /\ UNCHANGED <<clock, jwts>>
           /\ UNCHANGED <<queueVars, userVars, keyVars, resetVars>>

\* get_current_user_from_token, lines 33-62, with is_token_blacklisted (lines
\* 443-460): the status a request that carries the token is refused with, 200
\* when it goes on to its endpoint.
CurrentUserStatus(token, blacklist, t) ==
    IF \E row \in blacklist : row.token = token THEN 401
    ELSE IF ~Decodes(token, t) THEN 401
    ELSE IF token.sub \notin DOMAIN users THEN 404
    ELSE 200

GetCurrentUser(token) ==
    /\ token_blacklist' = CleanedUp(token_blacklist, clock)
    /\ last_auth' = [op |-> "request", token |-> token,
                     status |-> CurrentUserStatus(token, token_blacklist', clock),
                     at |-> clock]
    /\ UNCHANGED <<clock, jwts, local_offset, logged_out>>
    /\ UNCHANGED <<queueVars, userVars, keyVars, resetVars>>

NextSessions ==
    \/ \E e \in Emails : \E n \in Usernames : RegisterUser(e, n, None)
    \/ \E e \in Emails : \E password \in {RegisterPassword} \cup Passwords :
          Login(e, password)
    \/ \E token \in jwts \cup {Forged} : Logout(token)
    \/ \E token \in jwts \cup {Forged} : GetCurrentUser(token)
    \/ TickClock

SpecSessions == InitStore /\ [][NextSessions]_vars

----------------------------------------------------------------------------
\* The key manager (src/services/key_management.py) over the table as it
\* evolves, with the key routes of src/routes/authenticate.py.  The callers of
\* the key routes are authenticated users, named by their user id.

\* generate_key's default life of a key, in days.
expires_in_days == 365

\* The owner the migration of _init_db gives to every row it copies.
System == 0

\* The key ids and key secrets a caller can send: those drawn so far and some
\* that were never drawn.
KeyIdValues == 1..(MaxKeys + 1)
KeyValues == 1..(MaxKeys + 1)

\* is_key_valid over a table: some row holds the key, is active, and its
\* expires_at, when set, is not in the past.
IsKeyValidIn(rows, api_key, t) ==
    \E id \in DOMAIN rows :
        /\ rows[id].key = api_key
        /\ rows[id].is_active
        /\ IF rows[id].expires_at = <<>>
             THEN TRUE
             ELSE ~(rows[id].expires_at[1] < t)

\* A variant that looks the key up by its id alone.
VerifyUserKey_AnyOwner(key_id, user_id) == key_id \in DOMAIN key_rows

\* verify_user_key, lines 72-85: a row with this key_id and this user_id.
VerifyUserKey(key_id, user_id) ==
    key_id \in DOMAIN key_rows /\ key_rows[key_id].user_id = user_id

\* The HTTPException of lines 118-121 and 183-186.
KeyNotFound(key_id) ==
    [detail |-> "No API key found with ID: " \o ToString(key_id)]

\* A variant of the migration that leaves is_active to the column default.
MigratedRow_Reactivates(row) == [row EXCEPT !.user_id = System, !.is_active = TRUE]

\* Lines 39-54: what the migration copies of a row (the key, the dates and
\* is_active, which is never NULL) and what it replaces (the owner).
MigratedRow(row) == [row EXCEPT !.user_id = System]

\* generate_key, lines 87-112: a new key_id, a new secret, is_active by the
\* column default; expires_at is NULL when expires_in_days is None.
GenerateKey(user_id, expiry) ==
    LET id == keyIdCount + 1
        api_key == keyCount + 1
    IN /\ keyCount < MaxKeys
       /\ keyIdCount <= MaxKeys
       /\ key_rows' = key_rows @@
             (id :> [key |-> api_key, user_id |-> user_id, is_active |-> TRUE,
                     expires_at |-> IF expiry = <<>> THEN <<>> ELSE <<now + expiry[1]>>])
       /\ keyIdCount' = id
       /\ keyCount' = api_key
       /\ last_key_call' = [op |-> "generate_key", caller |-> user_id, key_id |-> id,
                            status |-> 200,
                            content |-> [key_id |-> id, api_key |-> api_key]]
       /\ UNCHANGED revoked
       /\ UNCHANGED <<queueVars, userVars, sessionVars, resetVars>>

\* POST /revoke-key/{key_id} (lines 57-77) with revoke_key (lines 179-199).
RevokeKey(user_id, key_id) ==
    /\ IF VerifyUserKey(key_id, user_id)
         THEN /\ key_rows' = [key_rows EXCEPT ![key_id].is_active = FALSE]
              /\ revoked' = revoked \cup {key_rows[key_id].key}
              /\ last_key_call' = [op |-> "revoke_key", caller |-> user_id,
                                   key_id |-> key_id, status |-> 200,
                                   content |-> [message |-> "API key revoked successfully"]]
         ELSE /\ UNCHANGED <<key_rows, revoked>>
              /\ last_key_call' = [op |-> "revoke_key", caller |-> user_id,
                                   key_id |-> key_id, status |-> 404,
                                   content |-> KeyNotFound(key_id)]
    /\ UNCHANGED <<keyIdCount, keyCount>>
    /\ UNCHANGED <<queueVars, userVars, sessionVars, resetVars>>

\* GET /key-info/{key_id} (lines 79-93) with get_key_info (lines 114-148).
GetKeyInfo(user_id, key_id) ==
    /\ last_key_call' =
         IF VerifyUserKey(key_id, user_id)
           THEN [op |-> "get_key_info", caller |-> user_id, key_id |-> key_id,
                 status |-> 200,
                 content |-> [key_id |-> key_id, key |-> key_rows[key_id].key,
                              expires_at |-> key_rows[key_id].expires_at,
                              is_active |-> key_rows[key_id].is_active]]
           ELSE [op |-> "get_key_info", caller |-> user_id, key_id |-> key_id,
                 status |-> 404, content |-> KeyNotFound(key_id)]
    /\ UNCHANGED <<key_rows, keyIdCount, keyCount, revoked>>
    /\ UNCHANGED <<queueVars, userVars, sessionVars, resetVars>>

\* A request that carries api_key as x-api-key goes through verify_api_key
\* (app_utils.py, lines 23-31), which asks is_key_valid (lines 201-226).
VerifyKeyRequest(api_key) ==
    /\ last_key_call' = [op |-> "verify_api_key", key |-> api_key,
                         status |-> IF IsKeyValidIn(key_rows, api_key, now)
                                      THEN 200 ELSE 401]
    /\ UNCHANGED <<key_rows, keyIdCount, keyCount, revoked>>
    /\ UNCHANGED <<queueVars, userVars, sessionVars, resetVars>>

\* KeyManager(), lines 10-70: every construction (the process starts) finds
\* the table api_keys, copies its rows into api_keys_new under new key ids and
\* the owner 'system', drops it and renames the copy.
InitDb ==
    LET rank(id) == Cardinality({j \in DOMAIN key_rows : j <= id})
        n == Cardinality(DOMAIN key_rows)
        old(nid) == CHOOSE id \in DOMAIN key_rows : keyIdCount + rank(id) = nid
    IN /\ keyIdCount + n <= MaxKeys + 1
       /\ key_rows' = [nid \in (keyIdCount + 1)..(keyIdCount + n) |->
                          MigratedRow(key_rows[old(nid)])]
       /\ keyIdCount' = keyIdCount + n
       /\ last_key_call' = [op |-> "init_db"]
       /\ UNCHANGED <<keyCount, revoked>>
       /\ UNCHANGED <<queueVars, userVars, sessionVars, resetVars>>

NextKeys ==
    \/ \E user_id \in UserIds : \E expiry \in {<<>>, <<expires_in_days>>} :
          GenerateKey(user_id, expiry)
    \/ \E user_id \in UserIds : \E key_id \in KeyIdValues : RevokeKey(user_id, key_id)
    \/ \E user_id \in UserIds : \E key_id \in KeyIdValues : GetKeyInfo(user_id, key_id)
    \/ \E api_key \in KeyValues : VerifyKeyRequest(api_key)
    \/ InitDb

SpecKeys == InitStore /\ [][NextKeys]_vars

----------------------------------------------------------------------------
\* Vocabulary of the properties.

Begun(r) == pc[r] # "idle"
Done(r) == pc[r] = "done"

\* The request asks for the synchronous path: its route bypasses the queue or
\* its body has no webhook_url.
WantsSync(r) == bypass_queue[r] \/ data[r].webhook_url \in {None, ""}

\* The wrapper invoked the Task Function inline.
SyncPathTaken(r) == gate_calls[r] > 0

\* The wrapper went through the capacity check.
AsyncPathTaken(r) ==
    \/ pc[r] \in {"check", "reject", "put", "ack"}
    \/ Done(r) /\ response[r].status_code \in {202, 429}

Count(seq, x) == Cardinality({i \in DOMAIN seq : seq[i] = x})
QueuedIds == [i \in DOMAIN task_queue |-> task_queue[i].job_id]
NotifiedIds == [i \in DOMAIN webhooks |-> webhooks[i].body.job_id]
Min(a, b) == IF a < b THEN a ELSE b

\* Whether the check at line 153 saw room for request r.
SawRoom(r) == MAX_QUEUE_LENGTH = 0 \/ qsize_at_check[r] < MAX_QUEUE_LENGTH

\* Jobs the worker has taken from the queue and not yet called task_done() for.
Executing == unfinished_tasks - Len(task_queue)

\* An envelope built by the except clause of process_task.
IsFaultEnvelope(e) == "code" \in DOMAIN e /\ e.code = 500 /\ "endpoint" \notin DOMAIN e

----------------------------------------------------------------------------
\* C1: a request takes the synchronous path (the wrapper invokes the Task
\* Function inline) if and only if bypass_queue is true or its webhook_url is
\* absent or empty; every other request goes through the capacity check and ends
\* in a 202 or a 429.
C1_PathDecision ==
    \A r \in Reqs : Begun(r) =>
        /\ SyncPathTaken(r) <=> WantsSync(r)
        /\ AsyncPathTaken(r) <=> ~WantsSync(r)
        /\ (Done(r) /\ ~WantsSync(r)) => response[r].content.code \in {202, 429}

C1_Witness ==
    \E r, q \in Reqs :
        /\ Done(r) /\ bypass_queue[r] /\ data[r].webhook_url = Url /\ SyncPathTaken(r)
        /\ Done(q) /\ data[q].webhook_url = "" /\ SyncPathTaken(q)

\* C2: no step of a request with bypass_queue=true or without webhook_url
\* changes the queue (content, length, unfinished count), whether its Task
\* Function returns or raises.
C2_SyncNeverEnqueues ==
    [][\A r \in Reqs :
         (Begun(r)' /\ WantsSync(r)' /\ pc'[r] # pc[r]) =>
            /\ task_queue' = task_queue
            /\ unfinished_tasks' = unfinished_tasks
            /\ pushed' = pushed]_vars

C2_Witness ==
    \E r, q \in Reqs :
        /\ r # q
        /\ Done(r) /\ WantsSync(r) /\ bypass_queue[r]
        /\ response[r].status_code = 500 /\ "endpoint" \notin DOMAIN response[r].content
        /\ Len(task_queue) = 1 /\ task_queue[1].job_id = job_id[q]

\* C3: a request with a webhook_url and bypass_queue=false whose capacity check
\* saw the queue below capacity (or no capacity) has appended exactly one job
\* and is answered 202 "processing", and the wrapper has not invoked its Task
\* Function.
C3_AcceptBelowCapacity ==
    \A r \in Reqs : (Begun(r) /\ ~WantsSync(r)) =>
        /\ (pc[r] \in {"put", "reject"} /\ SawRoom(r)) =>
              pc[r] = "put" /\ Count(pushed, job_id[r]) = 0
        /\ (pc[r] \in {"ack", "done"} /\ SawRoom(r)) =>
              /\ Count(pushed, job_id[r]) = 1
              /\ Count(QueuedIds, job_id[r]) + Count(started, job_id[r]) = 1
              /\ gate_calls[r] = 0
        /\ (Done(r) /\ SawRoom(r)) =>
              /\ response[r].status_code = 202
              /\ response[r].content.code = 202
              /\ response[r].content.message = "processing"

C3_Witness ==
    \E r \in Reqs :
        /\ Done(r) /\ ~WantsSync(r) /\ MAX_QUEUE_LENGTH = 2 /\ qsize_at_check[r] = 1
        /\ response[r].content.code = 202
        /\ started = <<>>

\* C4: with a positive capacity, a request whose capacity check saw the queue at
\* or above capacity is answered 429 with the message naming the limit; its job
\* is never in the queue, its Task Function is never invoked and no webhook is
\* sent for it.
C4_RejectAtCapacity ==
    \A r \in Reqs :
        (/\ Begun(r) /\ ~WantsSync(r)
         /\ pc[r] \in {"reject", "put", "ack", "done"}
         /\ MAX_QUEUE_LENGTH > 0
         /\ qsize_at_check[r] >= MAX_QUEUE_LENGTH) =>
            /\ pc[r] \in {"reject", "done"}
            /\ Count(pushed, job_id[r]) = 0
            /\ Count(QueuedIds, job_id[r]) = 0
            /\ Count(started, job_id[r]) = 0
            /\ Count(NotifiedIds, job_id[r]) = 0
            /\ gate_calls[r] = 0
            /\ cur.job_id # job_id[r]
            /\ Done(r) =>
                 /\ response[r].status_code = 429
                 /\ response[r].content.code = 429
                 /\ response[r].content.message =
                      "MAX_QUEUE_LENGTH (" \o ToString(MAX_QUEUE_LENGTH) \o ") reached"

C4_Witness ==
    \E r \in Reqs :
        /\ Done(r) /\ response[r].content.code = 429
        /\ response[r].content.message = "MAX_QUEUE_LENGTH (1) reached"
        /\ Len(started) = 1 /\ wpc = "get" /\ task_queue = <<>>

\* C5: with a positive capacity the number of waiting jobs never exceeds it.
C5_QueueBounded ==
    MAX_QUEUE_LENGTH > 0 => Len(task_queue) <= MAX_QUEUE_LENGTH

C5_Witness ==
    /\ MAX_QUEUE_LENGTH > 0
    /\ Len(task_queue) = MAX_QUEUE_LENGTH
    /\ \E r \in Reqs : pc[r] = "reject"

\* C6: with positive capacity C and nothing drained by the worker, of the N
\* asynchronous submissions answered so far the first min(N, C) got 202 and the
\* others 429 naming the limit.
C6_AdmittedCount ==
    (MAX_QUEUE_LENGTH > 0 /\ started = <<>>) =>
        LET answered == {r \in Reqs : Done(r) /\ ~WantsSync(r)}
            acked == {r \in answered : response[r].content.code = 202}
            refused == {r \in answered : response[r].content.code = 429}
            N == Cardinality(answered)
        IN  /\ Cardinality(acked) = Min(N, MAX_QUEUE_LENGTH)
            /\ Cardinality(refused) = N - Min(N, MAX_QUEUE_LENGTH)
            /\ \A r \in acked, q \in refused : r < q
            /\ \A q \in refused : response[q].content.message =
                   "MAX_QUEUE_LENGTH (" \o ToString(MAX_QUEUE_LENGTH) \o ") reached"

C6_Witness ==
    /\ MAX_QUEUE_LENGTH = 1 /\ started = <<>>
    /\ Done(1) /\ response[1].content.code = 202
    /\ Done(2) /\ response[2].content.code = 429
    /\ response[2].content.message = "MAX_QUEUE_LENGTH (1) reached"

\* C7: with capacity 0 no request is rejected: every asynchronous request is
\* enqueued and acknowledged 202 with the limit reported as "unlimited".
C7_Unbounded ==
    MAX_QUEUE_LENGTH = 0 =>
        \A r \in Reqs :
            /\ pc[r] # "reject"
            /\ response[r].status_code # 429
            /\ (Done(r) /\ ~WantsSync(r)) =>
                 /\ response[r].content.code = 202
                 /\ Count(pushed, job_id[r]) = 1
                 /\ response[r].content.max_queue_length = "unlimited"

C7_Witness ==
    /\ MAX_QUEUE_LENGTH = 0
    /\ \A r \in Reqs : Done(r) /\ response[r].content.code = 202
    /\ \E r \in Reqs : qsize_at_check[r] = NumReqs - 1

\* C8: the worker starts the Task Functions in the order the jobs were pushed.
C8_Fifo ==
    /\ Len(started) <= Len(pushed)
    /\ \A i \in DOMAIN started : started[i] = pushed[i]

C8_Witness ==
    /\ Len(started) = 2
    /\ \E r \in Reqs : job_id[r] = started[2] /\ qsize_at_check[r] = 1

\* C9: at most one job taken from the queue is unfinished at any time: the
\* worker is back at get() only with none, and every job started before the
\* latest one has had its webhook attempt.
C9_OneAtATime ==
    /\ Executing \in {0, 1}
    /\ Executing = 0 <=> wpc = "get"
    /\ Len(started) - Len(webhooks) = Executing

C9_Witness ==
    /\ wpc = "running"
    /\ Len(started) = 1
    /\ Len(task_queue) = 1
    /\ \E r \in Reqs : pc[r] = "ack"

\* C10: a raised fault does not end the worker: after the except clause built
\* its envelope the worker goes on to the webhook step, and whenever a job is
\* waiting or in progress the worker has a step to take.
C10_WorkerSurvivesFault ==
    /\ wpc \in {"get", "running", "notify"}
    /\ (wenv # NoJob /\ IsFaultEnvelope(wenv)) => wpc = "notify"
    /\ (task_queue # <<>> \/ Executing > 0) => ENABLED Worker

C10_Witness ==
    /\ Len(webhooks) = 2
    /\ IsFaultEnvelope(webhooks[1].body)
    /\ webhooks[2].body.code = 200
    /\ \E r \in Reqs : job_id[r] = started[2] /\ qsize_at_check[r] = 1

----------------------------------------------------------------------------
\* Further vocabulary.

Acked(r) == Done(r) /\ response[r].content.code = 202

\* The delivery attempts made for request r's job.
NotificationsOf(r) == {i \in DOMAIN webhooks : webhooks[i].body.job_id = job_id[r]}

\* Every envelope that has left the process: HTTP bodies and webhook payloads.
HttpBodies == {response[r].content : r \in {q \in Reqs : Done(q)}}
WebhookBodies == {webhooks[i].body : i \in DOMAIN webhooks}

\* C11: under a fairly scheduled worker whose Task Functions end, every job
\* acknowledged with 202 is eventually started by the worker and an envelope is
\* posted to its webhook_url, with code 200 and the payload when the task
\* returned status 200; and the queue is empty again and again.
C11_AckedJobsAreNotified ==
    /\ \A r \in Reqs :
         Acked(r) ~>
            /\ Count(started, job_id[r]) = 1
            /\ \E i \in NotificationsOf(r) :
                 /\ webhooks[i].url = data[r].webhook_url
                 /\ outcome[r].status = 200 =>
                      /\ webhooks[i].body.code = 200
                      /\ webhooks[i].body.response = outcome[r].payload
    /\ []<>(task_queue = <<>> /\ wpc = "get")

C11_Witness ==
    /\ MAX_QUEUE_LENGTH = 0
    /\ \A r \in Reqs : Acked(r) /\ outcome[r].status = 200 /\ NotificationsOf(r) # {}
    /\ webhooks[2].body.code = 200 /\ webhooks[2].body.response = "ok"
    /\ task_queue = <<>> /\ wpc = "get"

IdsOf(q) == [k \in DOMAIN q |-> q[k].job_id]

\* C12: an accepted job is in the queue or has been started by the worker,
\* never both and never twice; the wrapper never invokes its Task Function; and
\* a job leaves the queue only as the head taken by the worker's get().
C12_ConsumedOnce ==
    [][/\ \A r \in Reqs : (Count(pushed, job_id[r]) > 0)' =>
            /\ (Count(QueuedIds, job_id[r]) + Count(started, job_id[r]) = 1)'
            /\ (Count(started, job_id[r]) <= 1)'
            /\ gate_calls'[r] = 0
       /\ \A i \in DOMAIN task_queue :
            (Count(IdsOf(task_queue'), task_queue[i].job_id) = 0) =>
                /\ i = 1
                /\ wpc = "get" /\ wpc' = "running"
                /\ cur' = task_queue[1]
                /\ started' = Append(started, task_queue[1].job_id)
                /\ task_queue' = Tail(task_queue)]_vars

C12_Witness ==
    /\ Len(pushed) = 2
    /\ Len(started) = 2
    /\ Len(webhooks) = 2
    /\ \A r \in Reqs : Count(started, job_id[r]) = 1 /\ gate_calls[r] = 0
    /\ task_queue = <<>>

\* C13: on the synchronous path, when the Task Function returned
\* (payload, route, 200), the response has code 200, response = payload,
\* message "success", queue_time 0 and total_time equal to run_time.
C13_SyncSuccessEnvelope ==
    \A r \in Reqs :
        (Done(r) /\ SyncPathTaken(r) /\ ~outcome[r].raised /\ outcome[r].status = 200) =>
            /\ response[r].status_code = 200
            /\ response[r].content.code = 200
            /\ response[r].content.response = outcome[r].payload
            /\ response[r].content.message = "success"
            /\ response[r].content.queue_time = 0
            /\ response[r].content.total_time = response[r].content.run_time
            /\ response[r].content.endpoint = outcome[r].route

C13_Witness ==
    \E r \in Reqs :
        /\ Done(r) /\ data[r].webhook_url = None
        /\ outcome[r].status = 200
        /\ response[r].content.response = "ok"
        /\ response[r].content.run_time = 1
        /\ response[r].content.total_time = 1

\* C14: when a Task Function raised, the envelope has code 500, the fault's text
\* as message and no response field: the HTTP response on the synchronous path,
\* the webhook payload on the asynchronous path.
C14_FaultEnvelope ==
    \A r \in Reqs : outcome[r].raised =>
        /\ (SyncPathTaken(r) /\ Done(r)) =>
              /\ response[r].status_code = 500
              /\ response[r].content.code = 500
              /\ response[r].content.message = outcome[r].payload
              /\ "response" \notin DOMAIN response[r].content
        /\ (~SyncPathTaken(r)) =>
              /\ wpc = "notify" /\ cur.job_id = job_id[r] => wenv.code = 500
              /\ \A i \in NotificationsOf(r) :
                   /\ webhooks[i].body.code = 500
                   /\ webhooks[i].body.message = outcome[r].payload
                   /\ "response" \notin DOMAIN webhooks[i].body

C14_Witness ==
    \E r, q \in Reqs :
        /\ Done(r) /\ SyncPathTaken(r) /\ outcome[r].raised
        /\ response[r].content.message = "boom"
        /\ Acked(q) /\ outcome[q].raised
        /\ \E i \in NotificationsOf(q) : webhooks[i].body.message = "boom"

\* C15: no webhook delivery is ever attempted for a request with
\* bypass_queue=true or without webhook_url, even when a bypassing request
\* carries a webhook_url, whether its Task Function returned or raised; its
\* job never reaches the worker.
C15_SyncNeverNotifies ==
    \A r \in Reqs : (Begun(r) /\ WantsSync(r)) =>
        /\ NotificationsOf(r) = {}
        /\ cur.job_id # job_id[r]
        /\ Count(started, job_id[r]) = 0

C15_Witness ==
    \E r, q \in Reqs :
        /\ Done(r) /\ bypass_queue[r] /\ data[r].webhook_url = Url /\ outcome[r].raised
        /\ response[r].content.message = "boom"
        /\ Done(q) /\ data[q].webhook_url = "" /\ outcome[q].status = 200
        /\ webhooks = <<>>

\* C16: when a Task Function returns normally with a status s other than 200,
\* the envelope's code is s, its message is the returned payload and its
\* response is None, in the HTTP response of the synchronous path and in the
\* webhook payload of the worker; 500 is forced only when the function raised.
C16_ReturnedStatusHonoured ==
    \A r \in Reqs :
        /\ (outcome[r] # NoOutcome /\ ~outcome[r].raised /\ outcome[r].status # 200) =>
              /\ (SyncPathTaken(r) /\ Done(r)) =>
                    /\ response[r].status_code = outcome[r].status
                    /\ response[r].content.code = outcome[r].status
                    /\ response[r].content.message = outcome[r].payload
                    /\ response[r].content.response = None
              /\ \A i \in NotificationsOf(r) :
                    /\ webhooks[i].body.code = outcome[r].status
                    /\ webhooks[i].body.message = outcome[r].payload
                    /\ webhooks[i].body.response = None
        /\ (Done(r) /\ SyncPathTaken(r) /\ response[r].content.code = 500) =>
              outcome[r].raised \/ outcome[r].status = 500
        /\ \A i \in NotificationsOf(r) : webhooks[i].body.code = 500 =>
              outcome[r].raised \/ outcome[r].status = 500

C16_Witness ==
    \E r, q \in Reqs :
        /\ Done(r) /\ SyncPathTaken(r) /\ outcome[r].status = 400
        /\ response[r].status_code = 400 /\ response[r].content.message = "invalid"
        /\ Acked(q) /\ outcome[q].status = 400
        /\ \E i \in NotificationsOf(q) :
             webhooks[i].body.code = 400 /\ webhooks[i].body.message = "invalid"

\* The envelopes that report what a Task Function returned carry its route.
ReportsReturn(e) == "endpoint" \in DOMAIN e

C18_StatusMatchesCode ==
    \A r \in Reqs : Done(r) =>
        /\ response[r] # NoResponse
        /\ response[r].status_code = response[r].content.code
        /\ response[r].content.job_id = job_id[r]

C18_Witness ==
    \E r, q \in Reqs :
        /\ Done(r) /\ response[r].status_code = 429
        /\ Done(q) /\ response[q].status_code = 202
        /\ \E i \in NotificationsOf(q) : webhooks[i].body.code = 500

\* C19 as stated: a request on the asynchronous path is only ever answered with
\* a 202 acknowledgement.  Refuted by a request rejected at capacity.
C19_OnlyAck ==
    \A r \in Reqs : (Done(r) /\ ~WantsSync(r)) => response[r].content.code = 202

\* C19, amended: a request on the asynchronous path is only ever answered with
\* a 202 acknowledgement or a 429 rejection; the answer carries neither the
\* task's payload nor its status, also once the worker has run the job.
C19_NoOutcomeInAnswer ==
    \A r \in Reqs : (Done(r) /\ ~WantsSync(r)) =>
        /\ response[r].content.code \in {202, 429}
        /\ response[r].status_code \in {202, 429}
        /\ "response" \notin DOMAIN response[r].content
        /\ "endpoint" \notin DOMAIN response[r].content
        /\ response[r].content.message \in
              {"processing", "MAX_QUEUE_LENGTH (" \o ToString(MAX_QUEUE_LENGTH) \o ") reached"}
        /\ response[r].content.code = 202 <=> Count(pushed, job_id[r]) = 1

C19_Witness ==
    \E r, q \in Reqs :
        /\ Acked(r) /\ outcome[r].status = 200 /\ NotificationsOf(r) # {}
        /\ response[r].content.message = "processing"
        /\ Done(q) /\ response[q].content.code = 429

\* C20: a webhook delivery for a job is attempted only after the wrapper has
\* returned the 202 acknowledgement of that job.  Refuted: the worker thread can
\* take the job, run it and post the envelope between the put (line 169) and
\* the return of the JSONResponse (lines 171-185).
C20_AckBeforeNotify ==
    \A r \in Reqs : NotificationsOf(r) # {} => Acked(r)

\* The job ids of a log of delivery attempts.
AttemptIds(w) == [i \in DOMAIN w |-> w[i].body.job_id]

\* C21: send_webhook makes one delivery attempt per call and never retries; a
\* failed delivery is logged and dropped: the step that makes the attempt adds
\* exactly one attempt, the job has no other attempt, the queue is left as it
\* was (the job is not put back), the worker finishes the job (task_done) and
\* is back at get() for the next job, whether the delivery succeeded or not.
C21_DeliveryFaultDropped ==
    [][webhooks' # webhooks =>
         /\ Len(webhooks') = Len(webhooks) + 1
         /\ Count(AttemptIds(webhooks'), cur.job_id) = 1
         /\ task_queue' = task_queue
         /\ pushed' = pushed
         /\ unfinished_tasks' = unfinished_tasks - 1
         /\ wpc' = "get"]_vars

\* A failed delivery for the first job, after which the second job was run and
\* its envelope delivered.
C21_Witness ==
    /\ Len(webhooks) = 2
    /\ ~webhooks[1].delivered
    /\ webhooks[2].delivered
    /\ webhooks[1].body.job_id # webhooks[2].body.job_id
    /\ started = <<webhooks[1].body.job_id, webhooks[2].body.job_id>>
    /\ wpc = "get"

\* C22: every envelope the worker builds for a job whose Task Function returned
\* has non-negative queue_time, run_time and total_time, and total_time is
\* queue_time + run_time.  Refuted on a clock that advances: process_task reads
\* time.time() four times (lines 41, 42, 47, 48), so the time between the two
\* reads at pop and between the two reads at completion is in total_time and in
\* neither of the other two, and each value is rounded on its own.
C22_TimesAddUp ==
    \A i \in DOMAIN webhooks :
        "total_time" \in DOMAIN webhooks[i].body =>
            /\ webhooks[i].body.queue_time >= 0
            /\ webhooks[i].body.run_time >= 0
            /\ webhooks[i].body.total_time >= 0
            /\ webhooks[i].body.total_time =
                   webhooks[i].body.queue_time + webhooks[i].body.run_time

\* The position of request r's job in the order of acceptance (of put).
AcceptRank(r) == CHOOSE i \in DOMAIN pushed : pushed[i] = job_id[r]

\* C23, as claimed: of two acknowledged submissions, the one accepted later
\* reports the larger queue_length.  Refuted: the worker can take the first job
\* before the second is put, and both acknowledgements report 1.
C23_StrictlyIncreasing ==
    \A r, q \in Reqs :
        (Acked(r) /\ Acked(q) /\ AcceptRank(r) < AcceptRank(q)) =>
            response[r].content.queue_length < response[q].content.queue_length

\* C23, amended: the queue_length of a 202 acknowledgement is qsize() when the
\* response is built: between 0 and the number of jobs accepted so far, and
\* equal to that number (so strictly increasing from one acknowledgement to
\* the next) as long as the worker has taken no job.
C23_ReportedLength ==
    \A r \in Reqs : Acked(r) =>
        /\ response[r].content.queue_length >= 0
        /\ response[r].content.queue_length <= AcceptRank(r)
        /\ started = <<>> => response[r].content.queue_length = AcceptRank(r)

\* Two acknowledgements that both report 1: the worker took the first job
\* before the second was put.
C23_Witness ==
    \E r, q \in Reqs :
        /\ Acked(r) /\ Acked(q) /\ AcceptRank(r) < AcceptRank(q)
        /\ response[r].content.queue_length = 1
        /\ response[q].content.queue_length = 1
        /\ Len(started) = 1

\* Request r is inside the asynchronous branch, between line 153 and its return.
InGate(r) == pc[r] \in {"check", "reject", "put", "ack"}

\* C24, as claimed: while one admission stands between a capacity check that
\* saw the last free slot and its put, a second admission can enter the wrapper
\* (and so pass the same check).  Refuted: the first wrapper owns the event
\* loop until it returns, and no other wrapper runs.
C24_RaceWindowOpen ==
    \A r \in Reqs :
        ( /\ pc[r] = "put"
          /\ MAX_QUEUE_LENGTH > 0
          /\ qsize_at_check[r] = MAX_QUEUE_LENGTH - 1
          /\ \E q \in Reqs : pc[q] = "idle" ) =>
            ENABLED (\E q \in Reqs : \E k \in RequestKinds :
                        Begin(q, k.bq, k.wh, k.cid, UserId))

\* C24, amended: no two admissions are between the capacity check and the
\* return at the same time, and an admission that is about to put finds the
\* queue no longer than its check saw it: nothing is pushed into the slot it
\* saw free, and with a positive capacity the put never exceeds the capacity.
C24_NoDoubleAdmission ==
    \A r \in Reqs :
        /\ InGate(r) => ev_running = r /\ \A q \in Reqs \ {r} : ~InGate(q)
        /\ pc[r] = "put" =>
              /\ Len(task_queue) <= qsize_at_check[r]
              /\ MAX_QUEUE_LENGTH > 0 => Len(task_queue) < MAX_QUEUE_LENGTH

\* An admission that saw the last free slot and has not put yet, while another
\* request has still to be served.
C24_Witness ==
    \E r, q \in Reqs :
        /\ pc[r] = "put" /\ pc[q] = "idle"
        /\ MAX_QUEUE_LENGTH > 0
        /\ qsize_at_check[r] = MAX_QUEUE_LENGTH - 1

\* C25: every envelope, of an HTTP response (synchronous success or failure,
\* 202, 429) or of a webhook (worker success or failure), has the fields code,
\* id, job_id and message.  Refuted: the synchronous failure response of lines
\* 139-151 has no id field.
C25_CommonFields ==
    \A e \in HttpBodies \cup WebhookBodies :
        {"code", "id", "job_id", "message"} \subseteq DOMAIN e

\* The envelopes built from a Task Outcome, each with the request it is for:
\* the synchronous responses and the worker's webhook payloads.
OutcomeEnvelopes ==
    {[kind |-> "sync", r |-> r, body |-> response[r].content] :
        r \in {q \in Reqs : Done(q) /\ SyncPathTaken(q)}}
    \cup
    {[kind |-> "worker",
      r |-> CHOOSE r \in Reqs : job_id[r] = webhooks[i].body.job_id,
      body |-> webhooks[i].body] : i \in DOMAIN webhooks}

\* Two constructions by the same builder from equal inputs.
SameInputs(a, b) ==
    /\ a.kind = b.kind
    /\ outcome[a.r] = outcome[b.r]
    /\ data[a.r] = data[b.r]

\* Envelope e without the fields F.
Without(e, F) == [f \in DOMAIN e \ F |-> e[f]]

TimingFields == {"run_time", "queue_time", "total_time"}

\* C26, as claimed: two envelopes built from the same Task Outcome and the same
\* request parameters (for jobs that differ in nothing but their job id) agree
\* on every field except the timing fields, whatever the queue holds.
\* Refuted: queue_length is qsize() at construction.
C26_Deterministic ==
    \A a, b \in OutcomeEnvelopes : SameInputs(a, b) =>
        Without(a.body, TimingFields \cup {"job_id"}) =
        Without(b.body, TimingFields \cup {"job_id"})

\* C26, amended: they agree on every field except the timing fields and
\* queue_length.
C26_DeterministicButLength ==
    \A a, b \in OutcomeEnvelopes : SameInputs(a, b) =>
        Without(a.body, TimingFields \cup {"job_id", "queue_length"}) =
        Without(b.body, TimingFields \cup {"job_id", "queue_length"})

\* Two jobs with equal parameters and outcome, one finished while the other
\* was waiting in the queue, the other with the queue empty.
C26_Witness ==
    \E a, b \in OutcomeEnvelopes :
        /\ a.r # b.r /\ SameInputs(a, b)
        /\ a.kind = "worker" /\ a.body.code = 200
        /\ a.body.queue_length = 1 /\ b.body.queue_length = 0

\* The worker is idle and nothing is waiting or being admitted.
Drained == task_queue = <<>> /\ wpc = "get" /\ \A r \in Reqs : ~InGate(r)

\* C27: two asynchronous submissions with the same client id get distinct job
\* ids; when both are accepted each is put on the queue as a job of its own, and
\* once the queue is drained each has been executed exactly once and has its
\* own delivery attempt, carrying its own job id and the shared client id.
C27_NoDeduplication ==
    \A r, q \in Reqs :
        ( /\ r # q /\ Begun(r) /\ Begun(q)
          /\ ~WantsSync(r) /\ ~WantsSync(q)
          /\ data[r].id = data[q].id ) =>
            /\ job_id[r] # job_id[q]
            /\ (Acked(r) /\ Acked(q)) =>
                  /\ Count(pushed, job_id[r]) = 1
                  /\ Count(pushed, job_id[q]) = 1
            /\ (Acked(r) /\ Acked(q) /\ Drained) =>
                  /\ Count(started, job_id[r]) = 1
                  /\ Count(started, job_id[q]) = 1
                  /\ Cardinality(NotificationsOf(r)) = 1
                  /\ Cardinality(NotificationsOf(q)) = 1
                  /\ \A i \in NotificationsOf(r) : webhooks[i].body.id = data[r].id

\* Two accepted submissions with client id "a", the second put while the first
\* was still waiting, both executed and notified.
C27_Witness ==
    \E r, q \in Reqs :
        /\ r # q /\ Acked(r) /\ Acked(q) /\ Drained
        /\ data[r].id = "a" /\ data[q].id = "a"
        /\ response[q].content.queue_length = 2
        /\ Len(webhooks) = 2
        /\ webhooks[1].body.job_id # webhooks[2].body.job_id

\* The header names no usable key: it is missing, not in the table, revoked, or
\* its expiry passed before the process started.
BadKey(h) ==
    \/ h = None
    \/ h \notin DOMAIN api_keys
    \/ ~api_keys[h].is_active
    \/ api_keys[h].expires_at # <<>> /\ api_keys[h].expires_at[1] < 0

\* Request r has left no trace in the gate, the queue, the worker or the
\* notifier: the wrapper never ran for it.
NoTraceOf(r) ==
    /\ job_id[r] = 0
    /\ gate_calls[r] = 0
    /\ outcome[r] = NoOutcome
    /\ \A i \in DOMAIN task_queue : task_queue[i].task_func # r
    /\ "task_func" \in DOMAIN cur => cur.task_func # r
    /\ NotificationsOf(r) = {}

\* C28, as claimed: a request whose key is missing, unknown, revoked or expired
\* is answered 401 and never reaches the wrapper.  Refuted for the missing
\* header, which the framework answers 422.
C28_Unauthorized401 ==
    \A r \in Reqs : (pc[r] # "idle" /\ BadKey(x_api_key[r])) =>
        /\ pc[r] = "refused"
        /\ response[r].status_code = 401
        /\ NoTraceOf(r)

\* C28, amended: such a request is refused before the wrapper runs, with 401
\* for an unknown, revoked or expired key and 422 for a missing header; no job
\* is enqueued, no Task Function is executed and no webhook is sent for it.
C28_AuthBeforeAdmission ==
    \A r \in Reqs : (pc[r] # "idle" /\ BadKey(x_api_key[r])) =>
        /\ pc[r] = "refused"
        /\ response[r].status_code = IF x_api_key[r] = None THEN 422 ELSE 401
        /\ NoTraceOf(r)

\* A request with a revoked key refused while the job of a request with a valid
\* key was accepted, executed and notified.
C28_Witness ==
    \E r, q \in Reqs :
        /\ pc[r] = "refused" /\ x_api_key[r] = "k_revoked"
        /\ response[r].status_code = 401
        /\ Acked(q) /\ x_api_key[q] = "k_ok"
        /\ Len(pushed) = 1 /\ Len(webhooks) = 1

\* C29: every user that was created with role admin or super_admin was created
\* by a request of an authenticated super admin.  Refuted: create_super_admin
\* and create_admin declare no dependency on the caller and never look at
\* their credentials.
C29_OnlySuperAdminCreatesAdmins ==
    \A u \in DOMAIN created_by :
        created_by[u].role \in {"admin", "super_admin"} =>
            created_by[u].caller_role = "super_admin"

\* The users holding the role super_admin in table t.
SuperAdmins(t) == {u \in DOMAIN t : t[u].role = "super_admin"}

\* C30: a register or update-user request never adds a super admin: a
\* registration that succeeds stores the new user with role user whatever role
\* its body names, a stored role changes only by the update of a super_admin
\* caller, and never to super_admin.
C30_NoSuperAdminByRegisterOrUpdate ==
    [][(users' # users /\ last_call'.op \in {"register", "update"}) =>
         /\ SuperAdmins(users') \subseteq SuperAdmins(users)
         /\ \A u \in DOMAIN users' \ DOMAIN users : users'[u].role = "user"
         /\ \A u \in DOMAIN users :
               users'[u].role # users[u].role =>
                  /\ last_call'.op = "update"
                  /\ last_call'.caller_role = "super_admin"
                  /\ users'[u].role # "super_admin"]_vars

\* A super admin has promoted a registered user to admin, and that admin's
\* last request, an update, was refused with 403.
C30_Witness ==
    /\ \E u \in DOMAIN users :
          /\ created_by[u].via = "register"
          /\ users[u].role = "admin"
    /\ last_call.op = "update"
    /\ last_call.caller_role = "admin"
    /\ last_call.status = 403

\* C31: every job in the queue, and the job the worker holds, has a non-empty
\* webhook_url, and every job the worker has processed has exactly one delivery
\* attempt, carrying either the envelope of its outcome or the 500 fault
\* envelope; the job in the worker's hands has none yet.
C31_OneAttemptPerJob ==
    [](/\ \A i \in DOMAIN task_queue : Truthy(Get(task_queue[i].data, "webhook_url"))
       /\ cur # NoJob => Truthy(Get(cur.data, "webhook_url"))
       /\ \A i \in DOMAIN started :
             Count(AttemptIds(webhooks), started[i]) =
                IF cur.job_id = started[i] THEN 0 ELSE 1
       /\ \A i \in DOMAIN webhooks :
             /\ Count(started, webhooks[i].body.job_id) = 1
             /\ IsFaultEnvelope(webhooks[i].body) <=>
                   outcome[CHOOSE r \in Reqs : job_id[r] = webhooks[i].body.job_id].raised)

\* Two jobs processed, one whose Task Function returned and one whose Task
\* Function raised: one attempt each, the second carrying the fault envelope.
C31_Witness ==
    /\ Len(started) = 2 /\ Len(webhooks) = 2 /\ wpc = "get" /\ task_queue = <<>>
    /\ ~IsFaultEnvelope(webhooks[1].body)
    /\ IsFaultEnvelope(webhooks[2].body)
    /\ webhooks[1].body.job_id # webhooks[2].body.job_id

\* C32: the job in the worker's hands is not counted by the capacity check:
\* with a positive capacity C, a check made while one job is executing and
\* fewer than C jobs wait lets the submission through to the put (and the
\* 202); at most one job is executing, at most C wait, so at most C + 1 jobs
\* are outstanding.
C32_ExecutingNotCounted ==
    [][/\ \A r \in Reqs :
            ( /\ pc[r] = "check" /\ pc'[r] # "check"
              /\ MAX_QUEUE_LENGTH > 0
              /\ Executing = 1
              /\ Len(task_queue) < MAX_QUEUE_LENGTH ) => pc'[r] = "put"
       /\ \A r \in Reqs :
            ( /\ pc[r] = "ack" /\ pc'[r] = "done" ) =>
                 response'[r].status_code = 202
       /\ MAX_QUEUE_LENGTH > 0 =>
            /\ unfinished_tasks' - Len(task_queue') \in {0, 1}
            /\ Len(task_queue') <= MAX_QUEUE_LENGTH
            /\ unfinished_tasks' <= MAX_QUEUE_LENGTH + 1]_vars

\* Capacity C is positive, C jobs wait and one more is executing, and the newest
\* of them was accepted with 202 by a check made while that job was executing.
C32_Witness ==
    /\ MAX_QUEUE_LENGTH > 0
    /\ Len(task_queue) = MAX_QUEUE_LENGTH
    /\ Executing = 1 /\ wpc = "running"
    /\ unfinished_tasks = MAX_QUEUE_LENGTH + 1
    /\ \E r \in Reqs :
          /\ Acked(r)
          /\ task_queue[Len(task_queue)].job_id = job_id[r]
          /\ Count(pushed, cur.job_id) = 1 /\ cur.job_id # job_id[r]
          /\ qsize_at_check[r] = MAX_QUEUE_LENGTH - 1

\* C33: the queue_length of a 202 acknowledgement counts the job just
\* accepted: it is at least 1 and, with a positive capacity C, at most C.
\* Refuted: qsize() is read at line 182, after the put of line 169, and the
\* worker thread can take the job in between; the acknowledgement then
\* reports 0.
C33_AckCountsAcceptedJob ==
    \A r \in Reqs : Acked(r) =>
        /\ response[r].content.queue_length >= 1
        /\ MAX_QUEUE_LENGTH > 0 =>
              response[r].content.queue_length <= MAX_QUEUE_LENGTH

\* C34: only queued work is serialized.  While a request is suspended in its
\* Task Function on the synchronous path and no admission holds the event loop,
\* the next request can enter the wrapper and start its own Task Function
\* inline, the worker can take and start the next queued job, and the inline
\* Task Function can return while the worker is in the middle of a job.
C34_NoSerializationAcrossPaths ==
    [](\A r \in Reqs : pc[r] = "sync_await" =>
        /\ \A q \in Reqs :
              (NextToArrive(q) /\ \A p \in Reqs : ~InGate(p)) =>
                 ENABLED (\E k \in RequestKinds :
                             /\ TakesSyncPath(k.bq, [webhook_url |-> k.wh])
                             /\ Begin(q, k.bq, k.wh, k.cid, UserId))
        /\ (wpc = "get" /\ task_queue # <<>>) => ENABLED WorkerGet
        /\ (wpc = "running" /\ \A p \in Reqs : ~InGate(p)) =>
              ENABLED (\E out \in TaskOutcomes : SyncReturn(r, out)))

\* A request is suspended in its inline Task Function while the worker is
\* executing the job of another request.
C34_Witness ==
    \E r, q \in Reqs :
        /\ pc[r] = "sync_await" /\ gate_calls[r] = 1
        /\ wpc = "running" /\ cur.job_id = job_id[q] /\ q # r

\* C35: revocation is permanent.  A key for which revoke_key has succeeded
\* keeps its row, the row stays inactive and is_key_valid is false for it in
\* every later state, whatever keys are generated, revoked or looked up and
\* whenever the key manager is constructed again; a request that carries the
\* key is refused with 401 by verify_api_key.
C35_RevocationPermanent ==
    /\ \A k \in revoked :
          /\ \E id \in DOMAIN key_rows : key_rows[id].key = k /\ ~key_rows[id].is_active
          /\ ~IsKeyValidIn(key_rows, k, now)
    /\ (last_key_call.op = "verify_api_key" /\ last_key_call.key \in revoked) =>
          last_key_call.status = 401

\* A key was revoked, the key manager was constructed again, its owner
\* generated another key, and a request with the revoked key was refused.
C35_Witness ==
    /\ last_key_call.op = "verify_api_key"
    /\ last_key_call.key \in revoked
    /\ last_key_call.status = 401
    /\ \E id \in DOMAIN key_rows : key_rows[id].user_id = System /\ ~key_rows[id].is_active
    /\ \E id \in DOMAIN key_rows : key_rows[id].user_id # System /\ key_rows[id].is_active

\* C36: a revoke_key or get_key_info call that names a key_id which is not a
\* key of the caller (no such key, or a key of another owner) is answered 404;
\* the answer holds nothing but the key_id the caller sent, the same answer as
\* for a key_id that does not exist; and the table is left as it was.
C36_OwnershipIsolation ==
    [][( /\ last_key_call' # last_key_call
         /\ last_key_call'.op \in {"revoke_key", "get_key_info"}
         /\ ~( /\ last_key_call'.key_id \in DOMAIN key_rows
               /\ key_rows[last_key_call'.key_id].user_id = last_key_call'.caller ) ) =>
            /\ last_key_call'.status = 404
            /\ last_key_call'.content =
                  [detail |-> "No API key found with ID: "
                                 \o ToString(last_key_call'.key_id)]
            /\ key_rows' = key_rows
            /\ revoked' = revoked]_vars

\* A user asked to revoke the active key of another user: 404, and the key is
\* still active and still valid.
C36_Witness ==
    /\ last_key_call.op = "revoke_key"
    /\ last_key_call.status = 404
    /\ last_key_call.key_id \in DOMAIN key_rows
    /\ key_rows[last_key_call.key_id].user_id \in UserIds \ {last_key_call.caller}
    /\ key_rows[last_key_call.key_id].is_active
    /\ IsKeyValidIn(key_rows, key_rows[last_key_call.key_id].key, now)

\* No two rows of table t share an e-mail and no two share a user name.
NoDuplicates(t) ==
    \A u, v \in DOMAIN t :
        u # v => t[u].email # t[v].email /\ t[u].username # t[v].username

\* C39: whatever users are created, updated and deleted, no two stored users
\* share an e-mail or a user name; a request that is answered with an error
\* leaves the table as it was, and a create or update changes the table only
\* when the e-mail and the user name it writes are those of no other row.
C39_UniqueEmailAndUsername ==
    [][(last_call' # last_call \/ users' # users) =>
          /\ NoDuplicates(users')
          /\ last_call'.status # 200 => users' = users
          /\ \A u \in DOMAIN users' :
                (u \notin DOMAIN users \/ users'[u] # users[u]) =>
                   /\ last_call'.status = 200
                   /\ \A v \in DOMAIN users \ {u} :
                         /\ users[v].email # users'[u].email
                         /\ users[v].username # users'[u].username]_vars

\* Two users are stored, and the last request, an update that would have
\* given one of them the user name of the other, was answered 500.
C39_Witness ==
    /\ Cardinality(DOMAIN users) = 2
    /\ last_call.op = "update_user"
    /\ last_call.status = 500
    /\ NoDuplicates(users)
    /\ userCount = MaxUsers

\* Reset token t was issued to a user who has since been issued a newer one.
Replaced(t) ==
    /\ t \in DOMAIN issued_to
    /\ \E m \in DOMAIN issued_to : m > t /\ issued_to[m] = issued_to[t]

\* C37: a reset_password call made with a token that has already reset a
\* password, with a token that was never issued, or with a token that a newer
\* forgot-password request of the same user has replaced, is answered 400 and
\* changes no row of the users table (no password, no token).
\* (A step that draws no user id and no token and leaves reset_password in
\* the log is a reset_password call.)
C37_ResetTokenSingleUse ==
    [][( /\ last_reset'.op = "reset_password"
         /\ userCount' = userCount /\ issued_to' = issued_to
         /\ last_reset' # last_reset \/ users' # users
         /\ \/ last_reset'.token \in spent
            \/ last_reset'.token \notin DOMAIN issued_to
            \/ Replaced(last_reset'.token) ) =>
            /\ last_reset'.status = 400
            /\ users' = users]_vars

\* A token has reset a password, and the last call, a second reset with the
\* same token, was refused: the password is the one the first reset set.
C37_Witness ==
    /\ last_reset.op = "reset_password"
    /\ last_reset.token \in spent
    /\ last_reset.status = 400
    /\ \E u \in DOMAIN users :
          /\ issued_to[last_reset.token] = u
          /\ users[u].hashed_password = Hash("p1")
          /\ users[u].reset_token = <<>>

\* C38: a request that carries a token with which a logout has succeeded, made
\* while the token has not expired, is refused with 401; and the clean-up of
\* the blacklist removes only rows whose expiry has passed.  Refuted: logout
\* stores the local time of exp (fromtimestamp) and the clean-up compares it
\* with utcnow(); in a time zone west of UTC the row of a live token is already
\* "expired", the next is_token_blacklisted deletes it and the token is
\* accepted again.
C38_LoggedOutTokenRejected ==
    [][/\ ( /\ last_auth'.op = "request"
            /\ last_auth'.token \in logged_out'
            /\ last_auth'.at < last_auth'.token.exp ) => last_auth'.status = 401
       /\ \A row \in token_blacklist \ token_blacklist' :
             row.expiry < clock /\ row.token.exp <= clock]_vars

====
